---- MODULE Spec2Model ----
(***************************************************************************)
(* Model of the data collector (src/data_collector.py) and the data        *)
(* processor (src/data_processor.py).  The two classes share only the      *)
(* data_lake directory: one sub-directory per source, one file per fetch,  *)
(* named {source}_{timestamp}.json.                                        *)
(***************************************************************************)
EXTENDS Integers, Sequences, FiniteSets, TLC

VARIABLES
    lake,      \* data_lake on disk: directory name -> (file timestamp -> text)
    pc,        \* "idle", or "sweep" while collect_all_sources is in its loop
    todo,      \* collect_all_sources: the sources the loop has yet to visit
    results,   \* collect_all_sources: the local list `results`
    attempts,  \* collect_all_sources: the sources fetch_data was called for
    fetch,     \* outcome of the last fetch_data call
    summary,   \* what the last collect_all_sources returned
    proc,      \* outcome of the last process_source call
    fetches,   \* number of fetch_data calls made so far
    direct     \* number of them made by a caller, not by a sweep

vars == <<lake, pc, todo, results, attempts, fetch, summary, proc, fetches,
          direct>>

----------------------------------------------------------------------------
(* Bounds of the model *)

\* Readings of datetime.now() are drawn from 0..MaxTime.
MaxTime == 1
\* Number of fetch_data calls made in a run, directly or by a sweep.
MaxFetches == 3
\* Number of them a caller makes directly.
MaxDirect == 2

Times == 0..MaxTime

----------------------------------------------------------------------------
(* JSON values, texts and HTTP responses *)

\* A JSON object is a set of <<key, value>> pairs with distinct keys.
HasKey(obj, k) == \E p \in obj : p[1] = k

\* dict.get(k, default)
Get(obj, k, default) ==
    IF HasKey(obj, k) THEN (CHOOSE p \in obj : p[1] = k)[2] ELSE default

\* A payload is a list of objects or a single object (items has length 1).
ListOf(items) == [isList |-> TRUE, items |-> items]
DictOf(obj) == [isList |-> FALSE, items |-> <<obj>>]

PayloadA == ListOf(<<{<<"revenue", 10>>}, {<<"revenue", -5>>}, {<<"revenue", 0>>}>>)
PayloadB == DictOf({<<"revenue", 5>>})

\* A text is what a file or an HTTP body holds: malformed, or the
\* serialisation of a payload in some layout ("wire": as the server sent
\* it, "dump": as json.dump lays it out).
Malformed == [valid |-> FALSE, val |-> DictOf({}), layout |-> "wire"]
WireText(p) == [valid |-> TRUE, val |-> p, layout |-> "wire"]

\* json.dump(data, f): the text written for a parsed payload.
json_dump(data) == [valid |-> TRUE, val |-> data, layout |-> "dump"]

\* json.load(f) / response.json(): the payload, or a JSONDecodeError.
json_load(text) ==
    IF text.valid THEN [exc |-> "none", data |-> text.val]
    ELSE [exc |-> "JSONDecodeError", data |-> DictOf({})]

\* What requests.get(url) can produce: a transport error, or a response
\* with a status and a body.
TransportError == [kind |-> "error", status |-> 0, body |-> Malformed]
Http(s, b) == [kind |-> "http", status |-> s, body |-> b]
Responses ==
    {TransportError,
     Http(404, WireText(PayloadA)),
     Http(200, Malformed),
     Http(200, WireText(PayloadA)),
     Http(300, WireText(PayloadB))}

\* response.raise_for_status(): HTTPError for a 4xx or 5xx status only.
raise_for_status(r) == r.status >= 400 /\ r.status < 600

\* The classes the except clauses of fetch_data name.
RequestException == {"ConnectionError", "HTTPError"}

\* requests.get(url); response.raise_for_status(); data = response.json()
get_json(r) ==
    IF r.kind = "error" THEN [exc |-> "ConnectionError", data |-> DictOf({})]
    ELSE IF raise_for_status(r) THEN [exc |-> "HTTPError", data |-> DictOf({})]
    ELSE json_load(r.body)

----------------------------------------------------------------------------
(* DataCollector *)

Sources == {"crm", "finance", "market"}
SourceNames == Sources \cup {"unknown"}

\* self.data_sources
data_sources(s) ==
    CASE s = "crm" -> [url |-> "crm_url"]
      [] s = "finance" -> [url |-> "finance_url"]
      [] s = "market" -> [urls |-> <<"market1_url", "market2_url">>]

\* self.data_sources.keys(), in insertion order
SourceOrder == <<"crm", "finance", "market">>

\* The URLs a fetch of the source may request.
UrlsOf(s) ==
    IF s \notin Sources THEN {}
    ELSE IF "url" \in DOMAIN data_sources(s) THEN {data_sources(s).url}
    ELSE {data_sources(s).urls[i] : i \in 1..Len(data_sources(s).urls)}

\* The dict fetch_data returns.  Its 'duration' entry (end_time - start_time)
\* is read by no operation and is left out of the model.
Record(source, timestamp) ==
    [status |-> "success", source |-> source, timestamp |-> timestamp]
NoRecord == [status |-> "none", source |-> "none", timestamp |-> -1]

\* f with key k bound to v (created or replaced)
Put(f, k, v) == [x \in DOMAIN f \cup {k} |-> IF x = k THEN v ELSE f[x]]

EmptyDir == [x \in {} |-> Malformed]
EmptyLake == [x \in {} |-> EmptyDir]

\* The loop without its break: every candidate is requested and the last
\* one that answers wins.
RECURSIVE try_urls_nobreak(_, _, _, _)
try_urls_nobreak(urls, i, resp, requested) ==
    IF i > Len(urls)
    THEN [exc |-> "RuntimeError", data |-> DictOf({}), requests |-> requested]
    ELSE LET got == get_json(resp[urls[i]])
             rest == try_urls_nobreak(urls, i + 1, resp, Append(requested, urls[i]))
         IN  IF rest.exc = "none" \/ got.exc # "none" THEN rest
             ELSE [exc |-> "none", data |-> got.data, requests |-> rest.requests]

\* The for/else loop over config['urls']: candidate i onwards.
RECURSIVE try_urls(_, _, _, _)
try_urls(urls, i, resp, requested) ==
    IF i > Len(urls)
    THEN [exc |-> "RuntimeError", data |-> DictOf({}), requests |-> requested]
    ELSE LET got == get_json(resp[urls[i]])
             req == Append(requested, urls[i])
         IN  IF got.exc = "none"
             THEN [exc |-> "none", data |-> got.data, requests |-> req]
             ELSE try_urls(urls, i + 1, resp, req)

\* The fetch itself: the if/elif over the configuration.
do_fetch(config, resp) ==
    IF "url" \in DOMAIN config
    THEN LET got == get_json(resp[config.url])
         IN  [exc |-> got.exc, data |-> got.data, requests |-> <<config.url>>]
    ELSE try_urls(config.urls, 1, resp, <<>>)

\* Storing the raw data: mkdir(parents=True, exist_ok=True), then
\* open(file_path, 'w') and json.dump: the file is created or truncated.
store_raw(lk, source, timestamp, data) ==
    LET dir == IF source \in DOMAIN lk THEN lk[source] ELSE EmptyDir
    IN  Put(lk, source, Put(dir, timestamp, json_dump(data)))

\* fetch_data with the source directory created before the configuration
\* is looked up.
fetch_data_mkdir_first(source, lk, resp, timestamp) ==
    LET made == IF source \in DOMAIN lk THEN lk ELSE Put(lk, source, EmptyDir)
    IN  IF source \notin Sources
        THEN [err |-> "ValueError", ret |-> NoRecord, lake |-> made,
              requests |-> <<>>, writes |-> <<>>]
        ELSE LET got == do_fetch(data_sources(source), resp)
             IN  IF got.exc # "none"
                 THEN [err |-> got.exc, ret |-> NoRecord, lake |-> made,
                       requests |-> got.requests, writes |-> <<>>]
                 ELSE [err |-> "none",
                       ret |-> Record(source, timestamp),
                       lake |-> store_raw(made, source, timestamp, got.data),
                       requests |-> got.requests,
                       writes |-> <<[dir |-> source, name |-> timestamp,
                                     text |-> json_dump(got.data)]>>]

\* fetch_data(source) on the lake lk, with resp the answer of each URL it
\* may request and timestamp its reading of datetime.now().isoformat().
\* writes lists the files it opened for writing.
fetch_data(source, lk, resp, timestamp) ==
    IF source \notin Sources
    THEN [err |-> "ValueError", ret |-> NoRecord, lake |-> lk,
          requests |-> <<>>, writes |-> <<>>]
    ELSE LET got == do_fetch(data_sources(source), resp)
         IN  IF got.exc # "none"
             THEN [err |-> got.exc, ret |-> NoRecord, lake |-> lk,
                   requests |-> got.requests, writes |-> <<>>]
             ELSE [err |-> "none",
                   ret |-> Record(source, timestamp),
                   lake |-> store_raw(lk, source, timestamp, got.data),
                   requests |-> got.requests,
                   writes |-> <<[dir |-> source, name |-> timestamp,
                                 text |-> json_dump(got.data)]>>]

\* The outcome of a fetch_data call as the model records it: what the call
\* raised or returned, the requests and writes it made, the answer each
\* request got and the lake the call started from.
Outcome(source, resp, r, lk) ==
    [source |-> source, err |-> r.err, ret |-> r.ret, requests |-> r.requests,
     writes |-> r.writes,
     resp |-> [i \in 1..Len(r.requests) |-> resp[r.requests[i]]],
     before |-> lk]

NoFetch == [source |-> "none", err |-> "none", ret |-> NoRecord,
            requests |-> <<>>, writes |-> <<>>, resp |-> <<>>,
            before |-> EmptyLake]
NoSummary == [status |-> "none", err |-> "none", results |-> <<>>]
NoProc == [source |-> "none", err |-> "none", returned |-> FALSE, ret |-> <<>>]

\* A caller invokes fetch_data(source).
FetchOne ==
    /\ pc = "idle" /\ fetches < MaxFetches /\ direct < MaxDirect
    /\ \E source \in SourceNames, timestamp \in Times :
         \E resp \in [UrlsOf(source) -> Responses] :
           LET r == fetch_data(source, lake, resp, timestamp)
           IN  /\ lake' = r.lake
               /\ fetch' = Outcome(source, resp, r, lake)
    /\ summary' = NoSummary /\ proc' = NoProc
    /\ results' = <<>> /\ attempts' = <<>>
    /\ fetches' = fetches + 1 /\ direct' = direct + 1
    /\ UNCHANGED <<pc, todo>>

\* collect_all_sources is called: results = [] and the loop is entered.
SweepStart ==
    /\ pc = "idle" /\ fetches + Len(SourceOrder) <= MaxFetches
    /\ pc' = "sweep"
    /\ todo' = SourceOrder
    /\ results' = <<>> /\ attempts' = <<>>
    /\ fetch' = NoFetch /\ summary' = NoSummary /\ proc' = NoProc
    /\ UNCHANGED <<lake, fetches, direct>>

\* The loop body without its try/except: the exception leaves the loop.
sweep_body_no_except(res, r) ==
    IF r.err = "none"
    THEN [results |-> Append(res, r.ret), raised |-> "none"]
    ELSE [results |-> res, raised |-> r.err]

\* The try/except of the loop body, for a fetch_data call that ended as r:
\* the record is appended, or the exception (any Exception) is logged.
sweep_body(res, r) ==
    IF r.err = "none"
    THEN [results |-> Append(res, r.ret), raised |-> "none"]
    ELSE [results |-> res, raised |-> "none"]

\* One iteration of the loop of collect_all_sources.  An exception leaving
\* the loop body would end the call.
SweepStep ==
    /\ pc = "sweep" /\ todo # <<>>
    /\ LET source == Head(todo)
       IN  \E timestamp \in Times :
             \E resp \in [UrlsOf(source) -> Responses] :
               LET r == fetch_data(source, lake, resp, timestamp)
                   b == sweep_body(results, r)
               IN  /\ lake' = r.lake
                   /\ fetch' = Outcome(source, resp, r, lake)
                   /\ results' = b.results
                   /\ attempts' = Append(attempts, [source |-> source, ok |-> r.err = "none"])
                   /\ IF b.raised = "none"
                      THEN /\ todo' = Tail(todo)
                           /\ UNCHANGED <<pc, summary>>
                      ELSE /\ todo' = <<>>
                           /\ pc' = "idle"
                           /\ summary' = [status |-> "none", err |-> b.raised,
                                          results |-> <<>>]
    /\ fetches' = fetches + 1
    /\ UNCHANGED <<proc, direct>>

\* A status computed from the records.
sweep_status_by_results(res) == IF res = <<>> THEN "failed" ELSE "completed"

\* The 'status' of the dict collect_all_sources returns.
sweep_status(res) == "completed"

\* The return statement of collect_all_sources.
SweepReturn ==
    /\ pc = "sweep" /\ todo = <<>>
    /\ summary' = [status |-> sweep_status(results), err |-> "none",
                   results |-> results]
    /\ pc' = "idle"
    /\ UNCHANGED <<lake, todo, results, attempts, fetch, proc, fetches, direct>>

----------------------------------------------------------------------------
(* DataProcessor *)

\* The names bound in the module data_processor when process_source runs:
\* its imports, its logger and its class.
ProcessorGlobals ==
    {"logging", "Dict", "Any", "Optional", "json", "Path", "logger",
     "DataProcessor"}

\* [item for item in data if item.get('revenue', 0) > 0]
RECURSIVE filter_list(_)
filter_list(items) ==
    IF items = <<>> THEN <<>>
    ELSE LET rest == filter_list(Tail(items))
         IN  IF Get(Head(items), "revenue", 0) > 0
             THEN <<Head(items)>> \o rest ELSE rest

\* The loop body for one file: what is appended to processed_data, if
\* anything (a JSONDecodeError is logged, a dict with a revenue <= 0 is
\* passed over by `continue`).
process_file(text) ==
    LET got == json_load(text)
    IN  IF got.exc # "none" THEN <<>>
        ELSE IF got.data.isList
        THEN <<ListOf(filter_list(got.data.items))>>
        ELSE LET filtered == got.data.items[1]
             IN  IF HasKey(filtered, "revenue") /\ Get(filtered, "revenue", 0) <= 0
                 THEN <<>>
                 ELSE <<DictOf(filtered)>>

\* The loop over source_dir.glob('*.json'), in the order glob yields.
RECURSIVE process_files(_, _)
process_files(dir, order) ==
    IF order = <<>> THEN <<>>
    ELSE process_file(dir[Head(order)]) \o process_files(dir, Tail(order))

\* process_source(source) on the lake lk, with order the order in which
\* glob yields the files.  The first statement reads the global name
\* datetime.  The function has no return statement: when it ends without
\* an exception it returns None (returned is FALSE) and processed_data is
\* dropped.
process_source(source, lk, order) ==
    IF "datetime" \notin ProcessorGlobals
    THEN [source |-> source, err |-> "NameError", returned |-> FALSE, ret |-> <<>>]
    ELSE IF source \notin DOMAIN lk
    THEN [source |-> source, err |-> "FileNotFoundError", returned |-> FALSE,
          ret |-> <<>>]
    ELSE LET processed_data == process_files(lk[source], order)
         IN  [source |-> source, err |-> "none", returned |-> FALSE, ret |-> <<>>]

\* The orders in which the files of a directory can be enumerated.
Orders(dir) ==
    {o \in [1..Cardinality(DOMAIN dir) -> DOMAIN dir] :
        \A i, j \in DOMAIN o : o[i] = o[j] => i = j}

GlobOrders(lk, source) ==
    IF source \in DOMAIN lk THEN Orders(lk[source]) ELSE {<<>>}

\* A caller invokes process_source(source).
ProcessSource ==
    /\ pc = "idle"
    /\ \E source \in SourceNames :
         \E order \in GlobOrders(lake, source) :
           proc' = process_source(source, lake, order)
    /\ fetch' = NoFetch /\ summary' = NoSummary
    /\ results' = <<>> /\ attempts' = <<>>
    /\ UNCHANGED <<lake, pc, todo, fetches, direct>>

----------------------------------------------------------------------------
(* The system *)

\* What the data_lake directory may hold when a run starts: nothing, or
\* the crm directory of an earlier run holding one file that was cut short
\* while it was written (its timestamp, -1, is older than every reading of
\* the clock in this run).
InitLakes ==
    {EmptyLake,
     [d \in {"crm"} |-> [n \in {-1} |-> Malformed]]}

Init ==
    /\ lake \in InitLakes
    /\ pc = "idle"
    /\ todo = <<>> /\ results = <<>> /\ attempts = <<>>
    /\ fetch = NoFetch /\ summary = NoSummary /\ proc = NoProc
    /\ fetches = 0 /\ direct = 0

Next == FetchOne \/ SweepStart \/ SweepStep \/ SweepReturn \/ ProcessSource

Spec == Init /\ [][Next]_vars

----------------------------------------------------------------------------
(* Properties *)

\* A request was answered with a payload: a response arrived, its status is
\* not an error status, and its body is JSON.
Answered(r) == r.kind = "http" /\ ~(r.status \in 400..599) /\ r.body.valid

\* A request failed as the specification words it: a transport error, a
\* status outside 200..299, or a body that is not JSON.
Failed(r) == r.kind = "error" \/ ~(r.status \in 200..299) \/ ~r.body.valid

\* The exceptions the specification calls FetchError.
FetchError == RequestException \cup {"JSONDecodeError", "RuntimeError"}

\* The files of a source directory in a lake (none when it is absent).
FilesOf(lk, source) == IF source \in DOMAIN lk THEN lk[source] ELSE EmptyDir

\* The last fetch_data call was for the source and requested all its URLs.
Exhausted(source) ==
    /\ fetch.source = source
    /\ Len(fetch.requests) = Cardinality(UrlsOf(source))

C2_FailedFetchRaises ==
    \A source \in Sources :
        (/\ Exhausted(source)
         /\ \A i \in 1..Len(fetch.requests) : Failed(fetch.resp[i]))
        => /\ fetch.err \in FetchError
           /\ fetch.ret = NoRecord
           /\ fetch.writes = <<>>
           /\ lake = fetch.before

\* C3: when collect_all_sources has ended, it ended by returning; it called
\* fetch_data once for every configured source, in order, whatever the
\* earlier calls did; and its records are those of the calls that
\* succeeded, one each, in that order.
C3_SweepVisitsAll ==
    (summary # NoSummary) =>
        LET ok == SelectSeq(attempts, LAMBDA a : a.ok)
        IN  /\ summary.err = "none"
            /\ [i \in 1..Len(attempts) |-> attempts[i].source] = SourceOrder
            /\ Len(summary.results) = Len(ok)
            /\ \A i \in 1..Len(ok) :
                 /\ summary.results[i].source = ok[i].source
                 /\ summary.results[i].status = "success"

\* C3 witness: a sweep returned after its first source, and only that one,
\* failed: the two later sources were fetched and the list has N-1 records.
C3_Witness ==
    /\ summary # NoSummary /\ summary.err = "none"
    /\ Len(attempts) = Len(SourceOrder)
    /\ ~attempts[1].ok /\ attempts[2].ok /\ attempts[3].ok
    /\ Len(summary.results) = Len(SourceOrder) - 1

\* C4: a successful fetch_data call leaves the source directory with one
\* file more than before and every earlier file as it was.
C4_AppendOnly ==
    \A source \in Sources :
        (fetch.source = source /\ fetch.err = "none") =>
            LET old == FilesOf(fetch.before, source)
                new == FilesOf(lake, source)
            IN  /\ Cardinality(DOMAIN new) = Cardinality(DOMAIN old) + 1
                /\ \A n \in DOMAIN old : n \in DOMAIN new /\ new[n] = old[n]

\* What the specification's filter rule yields for one parsed payload.
Positive(obj) == Get(obj, "revenue", 0) > 0
RECURSIVE KeepPositive(_)
KeepPositive(items) ==
    IF items = <<>> THEN <<>>
    ELSE (IF Positive(Head(items)) THEN <<Head(items)>> ELSE <<>>)
         \o KeepPositive(Tail(items))
FilteredEntry(payload) ==
    IF payload.isList THEN <<ListOf(KeepPositive(payload.items))>>
    ELSE IF ~HasKey(payload.items[1], "revenue") \/ Positive(payload.items[1])
    THEN <<payload>>
    ELSE <<>>

\* The entries the rule yields for the valid files of dir, in order.
RECURSIVE FilteredEntries(_, _)
FilteredEntries(dir, order) ==
    IF order = <<>> THEN <<>>
    ELSE (IF dir[Head(order)].valid
          THEN FilteredEntry(dir[Head(order)].val) ELSE <<>>)
         \o FilteredEntries(dir, Tail(order))

\* The last process_source call was for a source whose directory exists.
Processed(source) == proc.source = source /\ source \in DOMAIN lake

\* C5: process_source of a source whose files all parse returns the
\* sequence of filtered entries of its files, in some enumeration order.
C5_FilterRule ==
    \A source \in Sources :
        (/\ Processed(source)
         /\ \A n \in DOMAIN lake[source] : lake[source][n].valid)
        => /\ proc.err = "none"
           /\ proc.returned
           /\ \E order \in Orders(lake[source]) :
                proc.ret = FilteredEntries(lake[source], order)

\* C6: process_source of a source with no raw file, its directory absent or
\* empty, raises FileNotFoundError.
C6_NotFound ==
    \A source \in SourceNames :
        (/\ proc.source = source
         /\ DOMAIN FilesOf(lake, source) = {})
        => (proc.err = "FileNotFoundError" /\ ~proc.returned)

\* C7: process_source of a directory holding a file that is not JSON does
\* not raise, and returns what the other files alone yield.
C7_MalformedSkipped ==
    \A source \in Sources :
        (/\ Processed(source)
         /\ \E n \in DOMAIN lake[source] : ~lake[source][n].valid)
        => /\ proc.err = "none"
           /\ proc.returned
           /\ \E order \in Orders(lake[source]) :
                proc.ret = FilteredEntries(lake[source], order)

\* C8: fetch_data of a name that is not configured raises ValueError
\* without a request, a record, a write or any change to the lake.
C8_UnknownSource ==
    (fetch.source \notin Sources /\ fetch.source # "none") =>
        /\ fetch.err = "ValueError"
        /\ fetch.ret = NoRecord
        /\ fetch.requests = <<>>
        /\ fetch.writes = <<>>
        /\ lake = fetch.before

\* C8 witness: fetch_data("unknown") was called on a lake without an
\* "unknown" directory and raised.
C8_Witness ==
    /\ fetch.source = "unknown"
    /\ fetch.err = "ValueError"
    /\ "unknown" \notin DOMAIN lake

\* C9: every summary collect_all_sources returns has status "completed" and
\* between 0 and N records, N the number of configured sources.
C9_AlwaysCompleted ==
    (summary # NoSummary) =>
        /\ summary.status = "completed"
        /\ Len(summary.results) \in 0..Cardinality(Sources)

\* C9 witness: a sweep in which every source failed returned "completed"
\* with no record.
C9_Witness ==
    /\ summary # NoSummary
    /\ Len(attempts) = Len(SourceOrder)
    /\ \A i \in 1..Len(attempts) : ~attempts[i].ok
    /\ summary.results = <<>>
    /\ summary.status = "completed"

\* C10: a process_source call that follows a successful fetch_data of the
\* same source does not raise and returns a result, the file that fetch
\* wrote is among the files of the source directory under the record's
\* timestamp, and that file parses back to the payload fetched.
C10_StorageConvention ==
    [][\A source \in Sources :
         (/\ fetch.source = source /\ fetch.err = "none"
          /\ pc = "idle" /\ fetch' = NoFetch
          /\ proc'.source = source)
         => /\ proc'.err = "none"
            /\ proc'.returned
            /\ fetch.ret.timestamp \in DOMAIN FilesOf(lake, source)
            /\ json_load(lake[source][fetch.ret.timestamp]).data
                 = fetch.resp[Len(fetch.requests)].body.val]_vars
====
